---- MODULE Spec2Model ----
(***************************************************************************)
(* Model of the Tokens class of lucia-mongoose-otp (src/src/tokens.ts).    *)
(*                                                                         *)
(* The token store and the user store are two collections reached by       *)
(* asynchronous queries.  Every `await` of the source is a point where     *)
(* other callers and the clock may move, so each operation is a sequence   *)
(* of steps: the call, each store operation, and the synchronous code that *)
(* runs when the awaited operation has answered.                           *)
(*                                                                         *)
(* Strings are sequences of characters, so that the parsing of an          *)
(* identifier "field:value" is computed as split(":") and join(":") do.    *)
(* An optional field is a sequence of length 0 (undefined) or 1.           *)
(***************************************************************************)
EXTENDS Integers, Sequences, FiniteSets, TLC

\* ------------------------------------------------------------------ bounds
MaxTime == 2
MaxTokens == 2

\* ------------------------------------------------------------ input domains
Procs == {1, 2}
Kinds == {"verify"}
LookupKinds == {"verify", "reset"}
Pins == {"P1", "P2"}
Identifiers == { <<"e", ":", "a">>, <<"m", ":", "a", ":", "b">> }
Expiries == { <<>>, <<0>> }

VARIABLES
    tokens,     \* the Token collection: a set of stored documents
    users,      \* the User collection
    now,        \* Date.now()
    nextId,     \* the _id the next created Token document gets
    pc,         \* per caller: where its current call stands
    op,         \* per caller: the operation it called
    input,      \* per caller: the argument of the call
    tok,        \* per caller: `existing` (getOrCreate) or `token` (validateToken)
    expd,       \* per caller: what this.isExpired(...) answered
    newTok,     \* per caller: the document created by this.create(input)
    crSt,       \* per caller: state of the create of Promise.all
    dlSt,       \* per caller: state of the deleteOne of Promise.all
    userCheck,  \* per caller: the result of getTokenUser
    res,        \* per caller: what the call returned (or that it threw)
    prev,       \* history, kept for calls that do not overlap: the token
                \* the call before gave, when that call was a getOrCreate
    gone        \* history, kept for calls that do not overlap: the token
                \* a validation found expired, while nothing is created

vars == <<tokens, users, now, nextId, pc, op, input, tok, expd, newTok,
          crSt, dlSt, userCheck, res, prev, gone>>

\* ------------------------------------------------------------------ values
NoToken == [id |-> 0, pin |-> "", kind |-> "", identifier |-> <<>>,
            expiresInMs |-> <<>>, createdAt |-> 0]

NoInput == [none |-> TRUE]

NoResult == [t |-> "none"]

Threw == [t |-> "threw"]

\* result.ts
err(e) == [t |-> "result", ok |-> FALSE, error |-> e]

ok(d) == [t |-> "result", ok |-> TRUE, data |-> d]

\* what a function that returns a bare value (getOrCreate) returns
Value(d) == [t |-> "value", data |-> d]

\* ------------------------------------------------------------- user records
\* A stored field holds a string or an array of strings.
Str(s) == [isArray |-> FALSE, elems |-> <<s>>]

Arr(ss) == [isArray |-> TRUE, elems |-> ss]

Absent == [isArray |-> FALSE, elems |-> <<>>]

NoUser == [_id |-> 0, props |-> <<>>]

UserA == [_id |-> 1, props |-> [f \in {<<"e">>} |-> Str(<<"a">>)]]

UserB == [_id |-> 2, props |-> [f \in {<<"m">>} |-> Arr(<< <<"a", ":", "b">> >>)]]

UserStores == { {}, {UserA, UserB} }

\* rawUser[field]
Prop(u, field) == IF field \in DOMAIN u.props THEN u.props[field] ELSE Absent

\* The store's equality filter {[field]: value}: a string field matches when
\* it equals the value, an array field when one of its elements does.
UserMatches(u, field, value) ==
    \E i \in DOMAIN Prop(u, field).elems : Prop(u, field).elems[i] = value

\* isExpired without the test for an undefined expiresInMs (undefined counts
\* as no delay at all)
isExpired_NoUndefinedTest(token, clock) ==
    IF token.expiresInMs = <<>>
    THEN token.createdAt < clock
    ELSE token.createdAt + token.expiresInMs[1] < clock

\* isExpired with the comparison made inclusive
isExpired_Inclusive(token, clock) ==
    IF token.expiresInMs = <<>>
    THEN FALSE
    ELSE token.createdAt + token.expiresInMs[1] <= clock

\* src/src/tokens.ts isExpired
isExpired(token, clock) ==
    IF token.expiresInMs = <<>>
    THEN FALSE
    ELSE token.createdAt + token.expiresInMs[1] < clock

\* ------------------------------------------------- identifier.split / join
RECURSIVE Split(_)
Split(s) ==
    IF \A i \in DOMAIN s : s[i] # ":"
    THEN << s >>
    ELSE LET i == CHOOSE k \in DOMAIN s :
                      s[k] = ":" /\ \A j \in 1..(k - 1) : s[j] # ":"
         IN  << SubSeq(s, 1, i - 1) >> \o Split(SubSeq(s, i + 1, Len(s)))

RECURSIVE Join(_)
Join(parts) ==
    IF parts = <<>> THEN <<>>
    ELSE IF Len(parts) = 1 THEN parts[1]
    ELSE parts[1] \o <<":">> \o Join(Tail(parts))

\* ParseIdentifier taking the second part as the value: const [field, value]
ParseIdentifier_SecondPart(identifier) ==
    LET parts == Split(identifier)
    IN  [field |-> Head(parts), value |-> Head(Tail(parts))]

ParseIdentifier(identifier) ==
    LET parts == Split(identifier)
    IN  [field |-> Head(parts), value |-> Join(Tail(parts))]

\* GetTokenUserResult without the comparison of the stored value
GetTokenUserResult_NoRecheck(rawUser, identifier) ==
    IF rawUser = NoUser
    THEN err([code |-> "user_not_found", identifier |-> identifier])
    ELSE ok([identifier |-> identifier,
             user |-> [userId |-> rawUser._id, props |-> rawUser.props]])

\* getTokenUser, from the answer of the user store on
GetTokenUserResult(rawUser, identifier) ==
    IF rawUser = NoUser
    THEN err([code |-> "user_not_found", identifier |-> identifier])
    ELSE IF Prop(rawUser, identifier.field) # Str(identifier.value)
    THEN err([code |-> "identifier_value_mismatch", identifier |-> identifier])
    ELSE ok([identifier |-> identifier,
             user |-> [userId |-> rawUser._id, props |-> rawUser.props]])

\* -------------------------------------------------------------- token store
\* Token.findOne(filter): the documents the filter selects
ByIdentifier(identifier, kind) ==
    { t \in tokens : t.identifier = identifier /\ t.kind = kind }

ByPin(pin, kind) == { t \in tokens : t.pin = pin /\ t.kind = kind }

\* doc.deleteOne(): removes the document with that _id, if still stored
Without(t) == { s \in tokens : s.id # t.id }

\* The pins a new document of this kind may get: a pin is a unique lookup key
\* within a kind.  Pins are interchangeable, so the first document ever
\* created is taken to get "P1".
FreshPins(kind) ==
    IF nextId = 1 THEN {"P1"} ELSE { p \in Pins : ByPin(p, kind) = {} }

\* Token.create(input): the stored document
NewToken(in, pin) ==
    [id |-> nextId, pin |-> pin, kind |-> in.kind, identifier |-> in.identifier,
     expiresInMs |-> in.expiresInMs, createdAt |-> now]

Idle(p) == pc[p] = "idle"

\* no call is under way (a call that has just returned counts as ended)
Quiescent == \A p \in Procs : pc[p] \in {"idle", "done"}

\* no caller stands at the instant of its return
Running == \A p \in Procs : pc[p] # "done"

Init ==
    /\ tokens = {}
    /\ users \in UserStores
    /\ now = 0
    /\ nextId = 1
    /\ pc = [p \in Procs |-> "idle"]
    /\ op = [p \in Procs |-> "none"]
    /\ input = [p \in Procs |-> NoInput]
    /\ tok = [p \in Procs |-> NoToken]
    /\ expd = [p \in Procs |-> FALSE]
    /\ newTok = [p \in Procs |-> NoToken]
    /\ crSt = [p \in Procs |-> "none"]
    /\ dlSt = [p \in Procs |-> "none"]
    /\ userCheck = [p \in Procs |-> NoResult]
    /\ res = [p \in Procs |-> NoResult]
    /\ prev = NoToken
    /\ gone = NoToken

\* ------------------------------------------------------------------- clock
Tick ==
    /\ now < MaxTime
    /\ now' = now + 1
    /\ UNCHANGED <<tokens, users, nextId, pc, op, input, tok, expd, newTok,
                   crSt, dlSt, userCheck, res, prev, gone>>

\* A call enters an operation.  Callers are interchangeable, so a call takes
\* the lowest caller that is free.
Enter(p, o, in) ==
    /\ Idle(p)
    /\ \A q \in Procs : q < p => ~Idle(q)
    /\ op' = [op EXCEPT ![p] = o]
    /\ input' = [input EXCEPT ![p] = in]

\* Token.findOne(filter).exec() answers with one of the documents the filter
\* selects, or with null
FindOne(p, found, at) ==
    /\ IF found = {}
       THEN tok' = [tok EXCEPT ![p] = NoToken]
       ELSE \E t \in found : tok' = [tok EXCEPT ![p] = t]
    /\ pc' = [pc EXCEPT ![p] = at]

\* a call ends: the caller stands at "done" with what the call gave
Return(p, r) ==
    /\ pc' = [pc EXCEPT ![p] = "done"]
    /\ res' = [res EXCEPT ![p] = r]

\* The caller leaves with the result and the locals of the call are gone.
\* They influence nothing any more, so this happens before anything else
\* moves (see Next): "done" is the instant of the return.
Leave(p) ==
    /\ pc[p] = "done"
    /\ pc' = [pc EXCEPT ![p] = "idle"]
    /\ op' = [op EXCEPT ![p] = "none"]
    /\ input' = [input EXCEPT ![p] = NoInput]
    /\ tok' = [tok EXCEPT ![p] = NoToken]
    /\ expd' = [expd EXCEPT ![p] = FALSE]
    /\ newTok' = [newTok EXCEPT ![p] = NoToken]
    /\ crSt' = [crSt EXCEPT ![p] = "none"]
    /\ dlSt' = [dlSt EXCEPT ![p] = "none"]
    /\ userCheck' = [userCheck EXCEPT ![p] = NoResult]
    /\ res' = [res EXCEPT ![p] = NoResult]
    /\ UNCHANGED <<tokens, users, now, nextId>>

\* the token the call that returns gave, when the call is a getOrCreate
Given(p) ==
    IF op[p] = "getOrCreate" /\ res[p].t = "value" THEN res[p].data ELSE NoToken

\* the token the call that returns found expired, when the call is a
\* validation; a call that created a token ends what was known to be gone
Expired(p) ==
    IF op[p] \in {"validateToken", "validateUserToken"} /\ expd[p] /\ res[p] # Threw
    THEN tok[p]
    ELSE IF newTok[p] # NoToken THEN NoToken ELSE gone

\* -------------------------------------------------------------- getOrCreate
\* the call, up to the answer of Token.findOne({ identifier, kind })
getOrCreate(p) ==
    \E identifier \in Identifiers, kind \in Kinds, expiresInMs \in Expiries :
        /\ Enter(p, "getOrCreate",
                 [identifier |-> identifier, kind |-> kind,
                  expiresInMs |-> expiresInMs])
        /\ FindOne(p, ByIdentifier(identifier, kind), "goc_found")
        /\ UNCHANGED <<tokens, users, now, nextId, expd, newTok, crSt, dlSt,
                       userCheck, res, prev, gone>>

\* GOC_Found with the test of isExpired inverted
GOC_Found_ReplaceLive(p) ==
    /\ pc[p] = "goc_found"
    /\ IF tok[p] = NoToken
       THEN /\ pc' = [pc EXCEPT ![p] = "goc_create"]
            /\ UNCHANGED <<expd, crSt, dlSt, res>>
       ELSE IF ~isExpired(tok[p], now)
       THEN /\ expd' = [expd EXCEPT ![p] = TRUE]
            /\ pc' = [pc EXCEPT ![p] = "goc_replace"]
            /\ crSt' = [crSt EXCEPT ![p] = "pending"]
            /\ dlSt' = [dlSt EXCEPT ![p] = "pending"]
            /\ UNCHANGED res
       ELSE /\ Return(p, Value(tok[p]))
            /\ UNCHANGED <<expd, crSt, dlSt>>
    /\ UNCHANGED <<tokens, users, now, nextId, op, input, tok, newTok, userCheck, prev, gone>>

\* GOC_Found creating although a live token exists
GOC_Found_AlwaysCreate(p) ==
    /\ pc[p] = "goc_found"
    /\ IF tok[p] = NoToken \/ ~isExpired(tok[p], now)
       THEN /\ pc' = [pc EXCEPT ![p] = "goc_create"]
            /\ UNCHANGED <<expd, crSt, dlSt, res>>
       ELSE /\ expd' = [expd EXCEPT ![p] = TRUE]
            /\ pc' = [pc EXCEPT ![p] = "goc_replace"]
            /\ crSt' = [crSt EXCEPT ![p] = "pending"]
            /\ dlSt' = [dlSt EXCEPT ![p] = "pending"]
            /\ UNCHANGED res
    /\ UNCHANGED <<tokens, users, now, nextId, op, input, tok, newTok, userCheck, prev, gone>>

\* GOC_Found pruning the other tokens of the key when it returns the one found
GOC_Found_Prune(p) ==
    /\ pc[p] = "goc_found"
    /\ IF tok[p] = NoToken
       THEN /\ pc' = [pc EXCEPT ![p] = "goc_create"]
            /\ UNCHANGED <<tokens, expd, crSt, dlSt, res>>
       ELSE IF isExpired(tok[p], now)
       THEN /\ expd' = [expd EXCEPT ![p] = TRUE]
            /\ pc' = [pc EXCEPT ![p] = "goc_replace"]
            /\ crSt' = [crSt EXCEPT ![p] = "pending"]
            /\ dlSt' = [dlSt EXCEPT ![p] = "pending"]
            /\ UNCHANGED <<tokens, res>>
       ELSE /\ Return(p, Value(tok[p]))
            /\ tokens' = { s \in tokens :
                             \/ s.id = tok[p].id
                             \/ s.identifier # tok[p].identifier
                             \/ s.kind # tok[p].kind }
            /\ UNCHANGED <<expd, crSt, dlSt>>
    /\ UNCHANGED <<users, now, nextId, op, input, tok, newTok, userCheck, prev, gone>>

\* if (existing) { if (this.isExpired(existing)) ... else ... } else ...
GOC_Found(p) ==
    /\ pc[p] = "goc_found"
    /\ IF tok[p] = NoToken
       THEN /\ pc' = [pc EXCEPT ![p] = "goc_create"]
            /\ UNCHANGED <<expd, crSt, dlSt, res>>
       ELSE IF isExpired(tok[p], now)
       THEN /\ expd' = [expd EXCEPT ![p] = TRUE]
            /\ pc' = [pc EXCEPT ![p] = "goc_replace"]
            /\ crSt' = [crSt EXCEPT ![p] = "pending"]
            /\ dlSt' = [dlSt EXCEPT ![p] = "pending"]
            /\ UNCHANGED res
       ELSE /\ Return(p, Value(tok[p]))
            /\ UNCHANGED <<expd, crSt, dlSt>>
    /\ UNCHANGED <<tokens, users, now, nextId, op, input, tok, newTok, userCheck, prev, gone>>

\* GOC_Create looking again before it inserts, and giving what it finds
GOC_Create_Dedup(p) ==
    /\ pc[p] = "goc_create"
    /\ nextId <= MaxTokens
    /\ IF ByIdentifier(input[p].identifier, input[p].kind) # {}
       THEN /\ \E t \in ByIdentifier(input[p].identifier, input[p].kind) :
                  Return(p, Value(t))
            /\ UNCHANGED <<tokens, newTok, nextId>>
       ELSE /\ \E pin \in FreshPins(input[p].kind) :
                  /\ tokens' = tokens \cup {NewToken(input[p], pin)}
                  /\ newTok' = [newTok EXCEPT ![p] = NewToken(input[p], pin)]
                  /\ Return(p, Value(NewToken(input[p], pin)))
            /\ nextId' = nextId + 1
    /\ UNCHANGED <<users, now, op, input, tok, expd, crSt, dlSt, userCheck, prev, gone>>

\* return this.create(input)
GOC_Create(p) ==
    /\ pc[p] = "goc_create"
    /\ nextId <= MaxTokens
    /\ \E pin \in FreshPins(input[p].kind) :
          /\ tokens' = tokens \cup {NewToken(input[p], pin)}
          /\ newTok' = [newTok EXCEPT ![p] = NewToken(input[p], pin)]
          /\ Return(p, Value(NewToken(input[p], pin)))
    /\ nextId' = nextId + 1
    /\ UNCHANGED <<users, now, op, input, tok, expd, crSt, dlSt, userCheck, prev, gone>>

\* GOC_Settle waiting for both operations and ignoring a failed create
GOC_Settle_IgnoreCreate(p, cr, dl, created) ==
    /\ crSt' = [crSt EXCEPT ![p] = cr]
    /\ dlSt' = [dlSt EXCEPT ![p] = dl]
    /\ pc' = [pc EXCEPT ![p] = IF "pending" \in {cr, dl}
                                THEN "goc_replace" ELSE "done"]
    /\ res' = [res EXCEPT ![p] =
                 IF res[p] # NoResult THEN res[p]
                 ELSE IF dl = "failed" THEN Threw
                 ELSE IF "pending" \in {cr, dl} THEN NoResult
                 ELSE Value(created)]

\* GOC_Settle waiting for both operations and ignoring a failed deleteOne
GOC_Settle_IgnoreDelete(p, cr, dl, created) ==
    /\ crSt' = [crSt EXCEPT ![p] = cr]
    /\ dlSt' = [dlSt EXCEPT ![p] = dl]
    /\ pc' = [pc EXCEPT ![p] = IF "pending" \in {cr, dl}
                                THEN "goc_replace" ELSE "done"]
    /\ res' = [res EXCEPT ![p] =
                 IF res[p] # NoResult THEN res[p]
                 ELSE IF cr = "failed" THEN Threw
                 ELSE IF "pending" \in {cr, dl} THEN NoResult
                 ELSE Value(created)]

\* Promise.all([create, deleteOne]) once an operation has answered: it
\* fulfils when both have, and the call returns newToken; a call that has
\* already thrown stays thrown.
GOC_Settle(p, cr, dl, created) ==
    /\ crSt' = [crSt EXCEPT ![p] = cr]
    /\ dlSt' = [dlSt EXCEPT ![p] = dl]
    /\ pc' = [pc EXCEPT ![p] = IF "pending" \in {cr, dl}
                                THEN "goc_replace" ELSE "done"]
    /\ res' = [res EXCEPT ![p] =
                 IF res[p] # NoResult THEN res[p]
                 ELSE IF "failed" \in {cr, dl} THEN Threw
                 ELSE IF "pending" \in {cr, dl} THEN NoResult
                 ELSE Value(created)]

\* this.create(input) of the Promise.all answers
GOC_ReplaceCreate(p) ==
    /\ pc[p] = "goc_replace"
    /\ crSt[p] = "pending"
    /\ nextId <= MaxTokens
    /\ \E pin \in FreshPins(input[p].kind) :
          /\ tokens' = tokens \cup {NewToken(input[p], pin)}
          /\ newTok' = [newTok EXCEPT ![p] = NewToken(input[p], pin)]
          /\ GOC_Settle(p, "ok", dlSt[p], NewToken(input[p], pin))
    /\ nextId' = nextId + 1
    /\ UNCHANGED <<users, now, op, input, tok, expd, userCheck, prev, gone>>

\* GOC_ReplaceDelete leaving the expired document stored
GOC_ReplaceDelete_Keep(p) ==
    /\ pc[p] = "goc_replace"
    /\ dlSt[p] = "pending"
    /\ tokens' = tokens
    /\ GOC_Settle(p, crSt[p], "ok", newTok[p])
    /\ UNCHANGED <<users, now, nextId, op, input, tok, expd, newTok, userCheck, prev, gone>>

\* existing.deleteOne() of the Promise.all answers
GOC_ReplaceDelete(p) ==
    /\ pc[p] = "goc_replace"
    /\ dlSt[p] = "pending"
    /\ tokens' = Without(tok[p])
    /\ GOC_Settle(p, crSt[p], "ok", newTok[p])
    /\ UNCHANGED <<users, now, nextId, op, input, tok, expd, newTok, userCheck, prev, gone>>

\* ------------------------------------------------------------ validateToken
\* validateToken looking the token up by its pin alone
validateToken_AnyKind(p) ==
    \E pin \in Pins, kind \in LookupKinds :
        /\ Enter(p, "validateToken", [pin |-> pin, kind |-> kind])
        /\ FindOne(p, { t \in tokens : t.pin = pin }, "vt_found")
        /\ UNCHANGED <<tokens, users, now, nextId, expd, newTok, crSt, dlSt,
                       userCheck, res, prev, gone>>

\* the call, up to the answer of Token.findOne({ pin, kind })
validateToken(p) ==
    \E pin \in Pins, kind \in LookupKinds :
        /\ Enter(p, "validateToken", [pin |-> pin, kind |-> kind])
        /\ FindOne(p, ByPin(pin, kind), "vt_found")
        /\ UNCHANGED <<tokens, users, now, nextId, expd, newTok, crSt, dlSt,
                       userCheck, res, prev, gone>>

\* VT_Found consuming the token that validateToken returns with success
VT_Found_Consume(p) ==
    /\ pc[p] = "vt_found"
    /\ IF tok[p] = NoToken
       THEN /\ Return(p, err([code |-> "token_not_found"]))
            /\ UNCHANGED <<tokens, expd>>
       ELSE IF isExpired(tok[p], now)
       THEN /\ expd' = [expd EXCEPT ![p] = TRUE]
            /\ pc' = [pc EXCEPT ![p] = "vt_deleteOne"]
            /\ UNCHANGED <<tokens, res>>
       ELSE IF op[p] = "validateUserToken"
       THEN /\ pc' = [pc EXCEPT ![p] = "vut_getTokenUser"]
            /\ UNCHANGED <<tokens, expd, res>>
       ELSE /\ Return(p, ok(tok[p]))
            /\ tokens' = Without(tok[p])
            /\ UNCHANGED expd
    /\ UNCHANGED <<users, now, nextId, op, input, tok, newTok, crSt, dlSt,
                   userCheck, prev, gone>>

\* if (!token) ...; if (this.isExpired(token)) ...; return ok(token).
\* Inside validateUserToken an ok result goes on to getTokenUser(token).
VT_Found(p) ==
    /\ pc[p] = "vt_found"
    /\ IF tok[p] = NoToken
       THEN /\ Return(p, err([code |-> "token_not_found"]))
            /\ UNCHANGED expd
       ELSE IF isExpired(tok[p], now)
       THEN /\ expd' = [expd EXCEPT ![p] = TRUE]
            /\ pc' = [pc EXCEPT ![p] = "vt_deleteOne"]
            /\ UNCHANGED res
       ELSE IF op[p] = "validateUserToken"
       THEN /\ pc' = [pc EXCEPT ![p] = "vut_getTokenUser"]
            /\ UNCHANGED <<expd, res>>
       ELSE /\ Return(p, ok(tok[p]))
            /\ UNCHANGED expd
    /\ UNCHANGED <<tokens, users, now, nextId, op, input, tok, newTok,
                   crSt, dlSt, userCheck, prev, gone>>

\* VT_DeleteOne where validateUserToken does not return the error of
\* validateToken but goes on to the user check
VT_DeleteOne_GoesOn(p) ==
    /\ pc[p] = "vt_deleteOne"
    /\ tokens' = Without(tok[p])
    /\ IF op[p] = "validateUserToken"
       THEN pc' = [pc EXCEPT ![p] = "vut_getTokenUser"] /\ UNCHANGED res
       ELSE Return(p, err([code |-> "token_expired"]))
    /\ UNCHANGED <<users, now, nextId, op, input, tok, expd, newTok,
                   crSt, dlSt, userCheck, prev, gone>>

\* VT_DeleteOne returning token_expired without the delete
VT_DeleteOne_Keep(p) ==
    /\ pc[p] = "vt_deleteOne"
    /\ tokens' = tokens
    /\ Return(p, err([code |-> "token_expired"]))
    /\ UNCHANGED <<users, now, nextId, op, input, tok, expd, newTok,
                   crSt, dlSt, userCheck, prev, gone>>

\* await token.deleteOne(); return err({ code: "token_expired" })
VT_DeleteOne(p) ==
    /\ pc[p] = "vt_deleteOne"
    /\ tokens' = Without(tok[p])
    /\ Return(p, err([code |-> "token_expired"]))
    /\ UNCHANGED <<users, now, nextId, op, input, tok, expd, newTok,
                   crSt, dlSt, userCheck, prev, gone>>

\* ------------------------------------------------------------- getTokenUser
\* User.findOne({ [identifier.field]: identifier.value }).lean(): what the
\* user store may answer
UserFindOne(identifier) ==
    LET found == { u \in users :
                     UserMatches(u, identifier.field, identifier.value) }
    IN  IF found = {} THEN {NoUser} ELSE found

\* getTokenUser deleting the tokens of the identifier when the user check fails
getTokenUser_DeleteOnFailure(p) ==
    \E token \in [identifier : Identifiers] :
        /\ Enter(p, "getTokenUser", token)
        /\ LET identifier == ParseIdentifier(token.identifier)
           IN  \E rawUser \in UserFindOne(identifier) :
                 /\ userCheck' = [userCheck EXCEPT ![p] =
                                    GetTokenUserResult(rawUser, identifier)]
                 /\ Return(p, GetTokenUserResult(rawUser, identifier))
                 /\ tokens' = IF GetTokenUserResult(rawUser, identifier).ok
                              THEN tokens
                              ELSE { t \in tokens :
                                       t.identifier # token.identifier }
        /\ UNCHANGED <<users, now, nextId, tok, expd, newTok, crSt,
                       dlSt, prev, gone>>

\* the whole call: it has one await, the query of the user store
getTokenUser(p) ==
    \E token \in [identifier : Identifiers] :
        /\ Enter(p, "getTokenUser", token)
        /\ LET identifier == ParseIdentifier(token.identifier)
           IN  \E rawUser \in UserFindOne(identifier) :
                 /\ userCheck' = [userCheck EXCEPT ![p] =
                                    GetTokenUserResult(rawUser, identifier)]
                 /\ Return(p, GetTokenUserResult(rawUser, identifier))
        /\ UNCHANGED <<tokens, users, now, nextId, tok, expd, newTok, crSt,
                       dlSt, prev, gone>>

\* VUT_GetTokenUser going on to delete the token when the user is found too
VUT_GetTokenUser_Consume(p) ==
    /\ pc[p] = "vut_getTokenUser"
    /\ LET identifier == ParseIdentifier(tok[p].identifier)
       IN  \E rawUser \in UserFindOne(identifier) :
             LET check == GetTokenUserResult(rawUser, identifier)
             IN  /\ userCheck' = [userCheck EXCEPT ![p] = check]
                 /\ pc' = [pc EXCEPT ![p] = "vut_deleteOne"]
                 /\ UNCHANGED res
    /\ UNCHANGED <<tokens, users, now, nextId, op, input, tok, expd, newTok,
                   crSt, dlSt, prev, gone>>

\* validateUserToken: getTokenUser(token) answers, and the call goes on to
\* delete the token or returns
VUT_GetTokenUser(p) ==
    /\ pc[p] = "vut_getTokenUser"
    /\ LET identifier == ParseIdentifier(tok[p].identifier)
       IN  \E rawUser \in UserFindOne(identifier) :
             LET check == GetTokenUserResult(rawUser, identifier)
             IN  /\ userCheck' = [userCheck EXCEPT ![p] = check]
                 /\ IF ~check.ok
                    THEN /\ pc' = [pc EXCEPT ![p] = "vut_deleteOne"]
                         /\ UNCHANGED res
                    ELSE Return(p, ok([user |-> check.data.user,
                                       token |-> tok[p]]))
    /\ UNCHANGED <<tokens, users, now, nextId, op, input, tok, expd, newTok,
                   crSt, dlSt, prev, gone>>

\* -------------------------------------------------------- validateUserToken
\* validateUserToken looking the token up by its pin alone
validateUserToken_AnyKind(p) ==
    \E pin \in Pins, kind \in LookupKinds :
        /\ Enter(p, "validateUserToken", [pin |-> pin, kind |-> kind])
        /\ FindOne(p, { t \in tokens : t.pin = pin }, "vt_found")
        /\ UNCHANGED <<tokens, users, now, nextId, expd, newTok, crSt, dlSt,
                       userCheck, res, prev, gone>>

\* the call, up to the answer of validateToken's Token.findOne({ pin, kind })
validateUserToken(p) ==
    \E pin \in Pins, kind \in LookupKinds :
        /\ Enter(p, "validateUserToken", [pin |-> pin, kind |-> kind])
        /\ FindOne(p, ByPin(pin, kind), "vt_found")
        /\ UNCHANGED <<tokens, users, now, nextId, expd, newTok, crSt, dlSt,
                       userCheck, res, prev, gone>>

\* VUT_DeleteOne returning the error without the delete
VUT_DeleteOne_Keep(p) ==
    /\ pc[p] = "vut_deleteOne"
    /\ tokens' = tokens
    /\ Return(p, userCheck[p])
    /\ UNCHANGED <<users, now, nextId, op, input, tok, expd, newTok,
                   crSt, dlSt, userCheck, prev, gone>>

\* await token.deleteOne(); return userCheck
VUT_DeleteOne(p) ==
    /\ pc[p] = "vut_deleteOne"
    /\ tokens' = Without(tok[p])
    /\ Return(p, userCheck[p])
    /\ UNCHANGED <<users, now, nextId, op, input, tok, expd, newTok,
                   crSt, dlSt, userCheck, prev, gone>>

\* ------------------------------------------------- store operations failing
\* An awaited query rejects and the call throws: the first query of a call,
\* or the query of the user store inside validateUserToken.
FindOneThrows(p) ==
    \/ /\ \E o \in {"getOrCreate", "validateToken", "getTokenUser",
                     "validateUserToken"} :
             \E in \in (IF o = "getOrCreate"
                         THEN [identifier : Identifiers, kind : Kinds,
                               expiresInMs : Expiries]
                         ELSE IF o = "getTokenUser"
                         THEN [identifier : Identifiers]
                         ELSE [pin : Pins, kind : LookupKinds]) :
                Enter(p, o, in)
       /\ Return(p, Threw)
       /\ UNCHANGED <<tokens, users, now, nextId, tok, expd, newTok, crSt,
                      dlSt, userCheck, prev, gone>>
    \/ /\ pc[p] = "vut_getTokenUser"
       /\ Return(p, Threw)
       /\ UNCHANGED <<tokens, users, now, nextId, op, input, tok, expd,
                      newTok, crSt, dlSt, userCheck, prev, gone>>

CreateThrows(p) ==
    \/ /\ pc[p] = "goc_create"
       /\ Return(p, Threw)
       /\ UNCHANGED <<tokens, users, now, nextId, op, input, tok, expd,
                      newTok, crSt, dlSt, userCheck, prev, gone>>
    \/ /\ pc[p] = "goc_replace"
       /\ crSt[p] = "pending"
       /\ GOC_Settle(p, "failed", dlSt[p], NoToken)
       /\ UNCHANGED <<tokens, users, now, nextId, op, input, tok, expd,
                      newTok, userCheck, prev, gone>>

DeleteOneThrows(p) ==
    \/ /\ pc[p] \in {"vt_deleteOne", "vut_deleteOne"}
       /\ Return(p, Threw)
       /\ UNCHANGED <<tokens, users, now, nextId, op, input, tok, expd,
                      newTok, crSt, dlSt, userCheck, prev, gone>>
    \/ /\ pc[p] = "goc_replace"
       /\ dlSt[p] = "pending"
       /\ GOC_Settle(p, crSt[p], "failed", newTok[p])
       /\ UNCHANGED <<tokens, users, now, nextId, op, input, tok, expd,
                      newTok, userCheck, prev, gone>>

\* ---------------------------------------------------------- specifications
\* any callers, overlapping freely, over stores that may fail
Next ==
    \/ Running /\ Tick
    \/ \E p \in Procs : Running /\ getOrCreate(p)
    \/ \E p \in Procs : Running /\ validateToken(p)
    \/ \E p \in Procs : Running /\ getTokenUser(p)
    \/ \E p \in Procs : Running /\ validateUserToken(p)
    \/ \E p \in Procs : Running /\ GOC_Found(p)
    \/ \E p \in Procs : Running /\ GOC_Create(p)
    \/ \E p \in Procs : Running /\ GOC_ReplaceCreate(p)
    \/ \E p \in Procs : Running /\ GOC_ReplaceDelete(p)
    \/ \E p \in Procs : Running /\ VT_Found(p)
    \/ \E p \in Procs : Running /\ VT_DeleteOne(p)
    \/ \E p \in Procs : Running /\ VUT_GetTokenUser(p)
    \/ \E p \in Procs : Running /\ VUT_DeleteOne(p)
    \/ \E p \in Procs : Running /\ FindOneThrows(p)
    \/ \E p \in Procs : Running /\ CreateThrows(p)
    \/ \E p \in Procs : Running /\ DeleteOneThrows(p)
    \/ \E p \in Procs : Leave(p) /\ UNCHANGED <<prev, gone>>

Spec == Init /\ [][Next]_vars

\* calls that do not overlap, over stores whose operations succeed
SeqNext ==
    \/ Running /\ Tick
    \/ \E p \in Procs : Running /\ Quiescent /\ getOrCreate(p)
    \/ \E p \in Procs : Running /\ Quiescent /\ validateToken(p)
    \/ \E p \in Procs : Running /\ Quiescent /\ getTokenUser(p)
    \/ \E p \in Procs : Running /\ Quiescent /\ validateUserToken(p)
    \/ \E p \in Procs : Running /\ GOC_Found(p)
    \/ \E p \in Procs : Running /\ GOC_Create(p)
    \/ \E p \in Procs : Running /\ GOC_ReplaceCreate(p)
    \/ \E p \in Procs : Running /\ GOC_ReplaceDelete(p)
    \/ \E p \in Procs : Running /\ VT_Found(p)
    \/ \E p \in Procs : Running /\ VT_DeleteOne(p)
    \/ \E p \in Procs : Running /\ VUT_GetTokenUser(p)
    \/ \E p \in Procs : Running /\ VUT_DeleteOne(p)
    \/ \E p \in Procs : Leave(p) /\ prev' = Given(p) /\ gone' = Expired(p)

SeqSpec == Init /\ [][SeqNext]_vars

TypeOK ==
    /\ now \in 0..MaxTime
    /\ nextId \in 1..(MaxTokens + 1)
    /\ users \in UserStores
    /\ \A t \in tokens : t.id \in 1..MaxTokens /\ t.pin \in Pins
                         /\ t.kind \in Kinds /\ t.identifier \in Identifiers
                         /\ t.expiresInMs \in Expiries /\ t.createdAt \in 0..MaxTime

\* ==================================================================== claims
\* the stored documents with these fields, written out
Stored(identifier, kind) ==
    { t \in tokens : t.identifier = identifier /\ t.kind = kind }

Live(t) == t.expiresInMs = <<>> \/ ~(t.createdAt + t.expiresInMs[1] < now)

IsStored(t) == \E s \in tokens : s.id = t.id

\* the call of caller p has returned (it has not thrown)
Returned(p, o) == pc[p] = "done" /\ op[p] = o /\ res[p] # Threw

\* C1: a validateToken call that finds the token matching (pin, kind) expired
\* returns the error token_expired, and when it returns that token is not in
\* the token store.
C1_ExpiredTokenDeleted ==
    \A p \in Procs :
        (Returned(p, "validateToken") /\ tok[p] # NoToken /\ ~Live(tok[p]) /\ expd[p])
            => /\ res[p] = err([code |-> "token_expired"])
               /\ ~IsStored(tok[p])

C1_Witness ==
    \E p \in Procs :
        /\ Returned(p, "validateToken")
        /\ tok[p] # NoToken /\ tok[p].pin = input[p].pin /\ tok[p].kind = input[p].kind
        /\ expd[p]
        /\ res[p] = err([code |-> "token_expired"])

\* C2: a validateUserToken call whose token is live but whose getTokenUser
\* fails (user_not_found or identifier_value_mismatch) returns that error, and
\* when it returns the token is not in the token store.
C2_OrphanedTokenDeleted ==
    \A p \in Procs :
        (/\ Returned(p, "validateUserToken")
         /\ tok[p] # NoToken
         /\ ~expd[p]
         /\ \E u \in UserFindOne(ParseIdentifier(tok[p].identifier)) :
               ~GetTokenUserResult(u, ParseIdentifier(tok[p].identifier)).ok)
            => /\ res[p].t = "result" /\ ~res[p].ok
               /\ res[p].error.code \in {"user_not_found", "identifier_value_mismatch"}
               /\ res[p] = userCheck[p]
               /\ \E u \in UserFindOne(ParseIdentifier(tok[p].identifier)) :
                     res[p] = GetTokenUserResult(u, ParseIdentifier(tok[p].identifier))
               /\ ~IsStored(tok[p])

C2_Witness ==
    \E p \in Procs :
        /\ Returned(p, "validateUserToken")
        /\ tok[p] # NoToken /\ ~expd[p]
        /\ res[p].t = "result" /\ ~res[p].ok
        /\ res[p].error.code = "user_not_found"
        /\ ~IsStored(tok[p])

\* C3: with calls that do not overlap and store operations that succeed, the
\* store never holds two non-expired tokens for one (identifier, kind).
C3_AtMostOneLive ==
    \A identifier \in Identifiers, kind \in LookupKinds :
        Cardinality({ t \in Stored(identifier, kind) : Live(t) }) <= 1

\* an expired token and the live token that replaces it, both stored
C3_Witness ==
    \E identifier \in Identifiers, kind \in LookupKinds :
        /\ Cardinality(Stored(identifier, kind)) = 2
        /\ Cardinality({ t \in Stored(identifier, kind) : Live(t) }) = 1

\* C4: the create of getOrCreate is an insert that looks at nothing: a caller
\* that saw no token for its (identifier, kind) adds one whatever the store
\* holds by then, so two overlapping calls leave two live tokens for one
\* (identifier, kind) (C4_Witness).
C4_CreateAddsToken ==
    [][\A p \in Procs :
          (pc[p] = "goc_create" /\ pc'[p] = "done" /\ res'[p] # Threw)
              => /\ tok[p] = NoToken
                 /\ res'[p].t = "value"
                 /\ ~(\E s \in tokens : s.id = res'[p].data.id)
                 /\ tokens' = tokens \cup {res'[p].data}
                 /\ res'[p].data.identifier = input[p].identifier
                 /\ res'[p].data.kind = input[p].kind]_vars

C4_Witness ==
    \E t1 \in tokens, t2 \in tokens :
        /\ t1.id # t2.id
        /\ t1.identifier = t2.identifier /\ t1.kind = t2.kind
        /\ Live(t1) /\ Live(t2)
        /\ \E p \in Procs : Returned(p, "getOrCreate") /\ tok[p] = NoToken
                            /\ res[p] = Value(t2)

\* C5: of two getOrCreate calls for one (identifier, kind), one after the other,
\* the second returns the token the first returned while that token is not
\* expired, and the store then holds exactly that token for the pair.
C5_SameTokenTwice ==
    \A p \in Procs :
        (/\ Returned(p, "getOrCreate")
         /\ prev # NoToken
         /\ prev.identifier = input[p].identifier /\ prev.kind = input[p].kind
         /\ Live(prev))
            => /\ res[p] = Value(prev)
               /\ Stored(input[p].identifier, input[p].kind) = {prev}

C5_Witness ==
    \E p \in Procs :
        /\ Returned(p, "getOrCreate")
        /\ prev # NoToken
        /\ prev.identifier = input[p].identifier /\ prev.kind = input[p].kind
        /\ prev.expiresInMs # <<>> /\ Live(prev)
        /\ res[p] = Value(prev)

\* C6: with calls that do not overlap and store operations that succeed, a
\* getOrCreate that finds the token of its (identifier, kind) expired returns
\* a new token, not the expired one; when it returns, the expired token is
\* not in the store and the new one is.
C6_ExpiredTokenReplaced ==
    \A p \in Procs :
        (Returned(p, "getOrCreate") /\ tok[p] # NoToken /\ expd[p])
            => /\ res[p].t = "value"
               /\ res[p].data.id # tok[p].id
               /\ res[p].data.createdAt > tok[p].createdAt
               /\ res[p].data.identifier = input[p].identifier
               /\ res[p].data.kind = input[p].kind
               /\ ~IsStored(tok[p])
               /\ res[p].data \in tokens

C6_Witness ==
    \E p \in Procs :
        /\ Returned(p, "getOrCreate") /\ tok[p] # NoToken /\ expd[p]
        /\ res[p].t = "value" /\ res[p].data \in tokens

\* C7, as claimed: in the replacement branch of getOrCreate, a deleteOne that
\* fails beside a create that succeeds leaves the call succeeding with the
\* new token.
C7_Original ==
    \A p \in Procs :
        (op[p] = "getOrCreate" /\ crSt[p] = "ok" /\ dlSt[p] = "failed")
            => res[p] = Value(newTok[p])

\* C7, amended: in the replacement branch of getOrCreate, a deleteOne that
\* fails makes the call throw, also when the create succeeds: the call
\* returns no token.
C7_DeleteFailureThrows ==
    \A p \in Procs :
        (op[p] = "getOrCreate" /\ dlSt[p] = "failed") => res[p] = Threw

C7_Witness ==
    \E p \in Procs :
        /\ op[p] = "getOrCreate" /\ pc[p] = "done"
        /\ crSt[p] = "ok" /\ dlSt[p] = "failed"
        /\ newTok[p] \in tokens
        /\ res[p] = Threw

\* every token the program holds, stored or in the hands of a caller
Held == tokens \cup { tok[p] : p \in { q \in Procs : tok[q] # NoToken } }

\* C8, as claimed: a token with expiresInMs is expired if and only if
\* now >= createdAt + expiresInMs.
C8_Original ==
    \A t \in Held :
        t.expiresInMs # <<>>
            => (isExpired(t, now) <=> now >= t.createdAt + t.expiresInMs[1])

\* C8, amended: a token with expiresInMs is expired if and only if
\* now > createdAt + expiresInMs; at now = createdAt + expiresInMs it is not
\* expired.
C8_ExpiredStrictlyAfter ==
    \A t \in Held :
        t.expiresInMs # <<>>
            => /\ isExpired(t, now) <=> now > t.createdAt + t.expiresInMs[1]
               /\ now = t.createdAt + t.expiresInMs[1] => ~isExpired(t, now)

\* a validateToken succeeds at now = createdAt + expiresInMs
C8_Witness ==
    \E p \in Procs :
        /\ Returned(p, "validateToken")
        /\ res[p] = ok(tok[p])
        /\ tok[p].expiresInMs # <<>>
        /\ now = tok[p].createdAt + tok[p].expiresInMs[1]

\* the step of caller p in which isExpired is evaluated
ChecksExpiry(p) ==
    /\ pc[p] \in {"goc_found", "vt_found"}
    /\ pc'[p] # pc[p]
    /\ tok[p] # NoToken

\* C9: where the code evaluates isExpired, the answer is false for a token
\* without expiresInMs whatever createdAt and the clock are, and otherwise true
\* exactly when createdAt + expiresInMs is before the clock; the evaluation
\* changes neither store.
C9_IsExpired ==
    [][\A p \in Procs :
          ChecksExpiry(p)
              => /\ tok[p].expiresInMs = <<>> => ~expd'[p]
                 /\ tok[p].expiresInMs # <<>>
                       => (expd'[p] <=> tok[p].createdAt + tok[p].expiresInMs[1] < now)
                 /\ expd'[p] <=> pc'[p] \in {"goc_replace", "vt_deleteOne"}
                 /\ tokens' = tokens /\ users' = users /\ tok'[p] = tok[p]]_vars

\* a token without expiresInMs, created before now, is found not expired
C9_Witness ==
    \E p \in Procs :
        /\ Returned(p, "validateToken")
        /\ res[p] = ok(tok[p])
        /\ tok[p].expiresInMs = <<>>
        /\ tok[p].createdAt < now

\* C10: a validateToken call whose (pin, kind) no stored token has finds no
\* token, and a validateToken call that finds no token returns the error
\* token_not_found; neither step changes the token store.
C10_TokenNotFound ==
    [][\A p \in Procs :
          /\ (/\ pc[p] = "idle" /\ op'[p] = "validateToken" /\ res'[p] # Threw
              /\ ~\E t \in tokens : t.pin = input'[p].pin /\ t.kind = input'[p].kind)
                 => /\ tok'[p] = NoToken
                    /\ pc'[p] = "vt_found"
                    /\ tokens' = tokens
          /\ (/\ pc[p] = "vt_found" /\ op[p] = "validateToken" /\ tok[p] = NoToken
              /\ pc'[p] # pc[p])
                 => /\ pc'[p] = "done"
                    /\ res'[p] = err([code |-> "token_not_found"])
                    /\ tokens' = tokens]_vars

\* token_not_found for a pin that a stored token of another kind has
C10_Witness ==
    \E p \in Procs :
        /\ Returned(p, "validateToken")
        /\ res[p] = err([code |-> "token_not_found"])
        /\ \E t \in tokens : t.pin = input[p].pin /\ t.kind # input[p].kind
        /\ ~\E t \in tokens : t.pin = input[p].pin /\ t.kind = input[p].kind

\* C11: getTokenUser changes neither the token store nor the user store,
\* whatever token it is given and whether it returns the user, user_not_found
\* or identifier_value_mismatch; this holds as well for the getTokenUser that
\* validateUserToken calls.
C11_GetTokenUserReadOnly ==
    [][\A p \in Procs :
          (\/ pc[p] = "idle" /\ op'[p] = "getTokenUser"
           \/ pc[p] = "vut_getTokenUser" /\ pc'[p] # pc[p])
              => tokens' = tokens /\ users' = users]_vars

\* getTokenUser has returned an error for an identifier that a stored token has
C11_Witness ==
    \E p \in Procs :
        /\ Returned(p, "getTokenUser")
        /\ ~res[p].ok
        /\ \E t \in tokens : t.identifier = input[p].identifier

\* C12: when the user store answers getTokenUser with a record whose value in
\* the parsed field is not exactly the parsed value, getTokenUser returns the
\* error identifier_value_mismatch; it returns the user only when the two are
\* equal.
C12_ValueMismatch ==
    \A p \in Procs :
        (pc[p] = "done" /\ userCheck[p] # NoResult)
            => LET identifier ==
                       ParseIdentifier(IF op[p] = "getTokenUser"
                                       THEN input[p].identifier
                                       ELSE tok[p].identifier)
               IN  \E rawUser \in UserFindOne(identifier) :
                     /\ (/\ rawUser # NoUser
                         /\ Prop(rawUser, identifier.field) # Str(identifier.value))
                            => userCheck[p] =
                                  err([code |-> "identifier_value_mismatch",
                                       identifier |-> identifier])
                     /\ userCheck[p].ok
                            => /\ rawUser # NoUser
                               /\ Prop(rawUser, identifier.field)
                                     = Str(identifier.value)
                               /\ userCheck[p].data.user.userId = rawUser._id

\* the store answered with a user whose field holds the value inside an array
C12_Witness ==
    \E p \in Procs :
        /\ Returned(p, "getTokenUser")
        /\ res[p] = err([code |-> "identifier_value_mismatch",
                         identifier |-> ParseIdentifier(input[p].identifier)])
        /\ \E u \in users :
              /\ UserMatches(u, ParseIdentifier(input[p].identifier).field,
                                ParseIdentifier(input[p].identifier).value)
              /\ Prop(u, ParseIdentifier(input[p].identifier).field).isArray

\* C13: getTokenUser parses the identifier at its first ':' only: the field is
\* what stands before it, the value everything after it with later ':' kept.
\* "email:a@example.com" gives field "email" and value "a@example.com",
\* "meta:a:b" gives field "meta" and value "a:b", and field, ":" and value
\* put together are the identifier again.
C13_ParsedAtFirstColon ==
    /\ ParseIdentifier(<<"e", "m", "a", "i", "l", ":", "a", "@", "e", "x", "a",
                         "m", "p", "l", "e", ".", "c", "o", "m">>)
          = [field |-> <<"e", "m", "a", "i", "l">>,
             value |-> <<"a", "@", "e", "x", "a", "m", "p", "l", "e", ".",
                         "c", "o", "m">>]
    /\ ParseIdentifier(<<"m", "e", "t", "a", ":", "a", ":", "b">>)
          = [field |-> <<"m", "e", "t", "a">>, value |-> <<"a", ":", "b">>]
    /\ \A p \in Procs :
          (pc[p] = "done" /\ userCheck[p] # NoResult)
              => LET given == IF op[p] = "getTokenUser"
                              THEN input[p].identifier ELSE tok[p].identifier
                     parsed == IF userCheck[p].ok
                               THEN userCheck[p].data.identifier
                               ELSE userCheck[p].error.identifier
                 IN  /\ parsed.field \o <<":">> \o parsed.value = given
                     /\ \A i \in DOMAIN parsed.field : parsed.field[i] # ":"

\* getTokenUser has parsed an identifier with two ':' and kept the second
C13_Witness ==
    \E p \in Procs :
        /\ Returned(p, "getTokenUser")
        /\ input[p].identifier = <<"m", ":", "a", ":", "b">>
        /\ ~res[p].ok
        /\ res[p].error.identifier = [field |-> <<"m">>, value |-> <<"a", ":", "b">>]

\* C14: for a token created with a delay expiresInMs, over calls that do not
\* overlap: a validateToken that finds it while the clock has not passed
\* createdAt + expiresInMs returns the token; one that finds it after the
\* clock has passed that instant returns token_expired and the token is no
\* longer stored; and every validateToken with the pin and kind of a token
\* that a validation found expired returns token_not_found, as long as no
\* token has been created since.
C14_ExpiredThenNotFound ==
    \A p \in Procs :
        (pc[p] = "done" /\ op[p] = "validateToken")
            => /\ (/\ tok[p] # NoToken /\ tok[p].expiresInMs # <<>>
                    /\ now <= tok[p].createdAt + tok[p].expiresInMs[1])
                       => res[p] = ok(tok[p])
               /\ (/\ tok[p] # NoToken /\ tok[p].expiresInMs # <<>>
                    /\ now > tok[p].createdAt + tok[p].expiresInMs[1])
                       => /\ res[p] = err([code |-> "token_expired"])
                          /\ ~IsStored(tok[p])
               /\ (/\ gone # NoToken
                    /\ input[p].pin = gone.pin /\ input[p].kind = gone.kind)
                       => res[p] = err([code |-> "token_not_found"])

\* a validateToken with the pin of the token a call before found expired
C14_Witness ==
    \E p \in Procs :
        /\ Returned(p, "validateToken")
        /\ gone # NoToken
        /\ gone.createdAt + gone.expiresInMs[1] < now
        /\ input[p].pin = gone.pin /\ input[p].kind = gone.kind
        /\ res[p] = err([code |-> "token_not_found"])

\* C15: in every interleaving of calls, a step removes a stored token only
\* as the deleteOne of a call that found that token expired, or as the
\* deleteOne of a validateUserToken whose user check on that token failed; a
\* token that stays stored keeps all its fields.  So a token that is not
\* expired and whose user resolves is neither deleted nor altered.
C15_RemovedOnlyExpiredOrOrphaned ==
    [][\A t \in tokens :
          /\ \A s \in tokens' : s.id = t.id => s = t
          /\ (~\E s \in tokens' : s.id = t.id)
                => /\ \E p \in Procs :
                        /\ tok[p] = t
                        /\ \/ /\ pc[p] = "vt_deleteOne" /\ pc'[p] = "done"
                              /\ expd[p]
                           \/ /\ pc[p] = "goc_replace" /\ dlSt[p] = "pending"
                              /\ dlSt'[p] = "ok" /\ expd[p]
                           \/ /\ pc[p] = "vut_deleteOne" /\ pc'[p] = "done"
                              /\ op[p] = "validateUserToken"
                              /\ userCheck[p] # NoResult /\ ~userCheck[p].ok
                   /\ \/ ~Live(t)
                      \/ \E rawUser \in UserFindOne(ParseIdentifier(t.identifier)) :
                            \/ rawUser = NoUser
                            \/ Prop(rawUser, ParseIdentifier(t.identifier).field)
                                 # Str(ParseIdentifier(t.identifier).value)]_vars

\* validateUserToken has deleted an unexpired token whose user did not
\* resolve, and an unexpired token whose user resolves is still stored
C15_Witness ==
    \E p \in Procs :
        /\ Returned(p, "validateUserToken")
        /\ tok[p] # NoToken /\ Live(tok[p]) /\ ~IsStored(tok[p])
        /\ ~res[p].ok /\ res[p] = userCheck[p]
        /\ \E t \in tokens :
              /\ Live(t)
              /\ \E u \in users :
                    Prop(u, ParseIdentifier(t.identifier).field)
                       = Str(ParseIdentifier(t.identifier).value)

\* C16: over stores whose operations succeed no call throws: every failure of
\* validateToken, getTokenUser and validateUserToken is a returned error
\* result with one of the codes token_not_found, token_expired,
\* user_not_found, identifier_value_mismatch.  When the lookup of
\* validateUserToken finds no token or an expired one, validateUserToken
\* returns the error validateToken returns in that case, and the user store
\* has not been queried.
C16_ErrorsAreResults ==
    \A p \in Procs :
        pc[p] = "done"
            => /\ res[p] # Threw
               /\ op[p] \in {"validateToken", "getTokenUser", "validateUserToken"}
                     => /\ res[p].t = "result"
                        /\ ~res[p].ok
                              => res[p].error.code \in
                                   {"token_not_found", "token_expired",
                                    "user_not_found", "identifier_value_mismatch"}
               /\ op[p] \in {"validateToken", "validateUserToken"}
                     => /\ tok[p] = NoToken
                              => /\ res[p] = err([code |-> "token_not_found"])
                                 /\ userCheck[p] = NoResult
                        /\ expd[p]
                              => /\ res[p] = err([code |-> "token_expired"])
                                 /\ userCheck[p] = NoResult

\* validateUserToken has returned token_expired for a token whose user the
\* user store does not have: the user check was not reached
C16_Witness ==
    \E p \in Procs :
        /\ Returned(p, "validateUserToken")
        /\ tok[p] # NoToken /\ expd[p]
        /\ res[p] = err([code |-> "token_expired"])
        /\ userCheck[p] = NoResult
        /\ users = {}

\* C17 as stated: when a getOrCreate, validateToken or validateUserToken has
\* returned the newer of two unexpired tokens stored for one (identifier,
\* kind), so that both were stored when its lookup was made, at most one
\* unexpired token for that (identifier, kind) remains.
C17_Original ==
    \A p \in Procs :
        (/\ pc[p] = "done" /\ res[p] # Threw
         /\ op[p] \in {"getOrCreate", "validateToken", "validateUserToken"}
         /\ tok[p] # NoToken /\ tok[p] \in tokens /\ Live(tok[p])
         /\ \E t \in tokens :
               /\ t.id < tok[p].id /\ Live(t)
               /\ t.identifier = tok[p].identifier /\ t.kind = tok[p].kind)
            => Cardinality({ t \in Stored(tok[p].identifier, tok[p].kind) :
                               Live(t) }) <= 1

\* C17: once two unexpired tokens are stored for one (identifier, kind), no
\* read prunes them: a getOrCreate that returns the one it found, and a
\* validateToken or validateUserToken that returns it with success, leave
\* the token store as it was, so both stay stored.
C17_DuplicatesPersist ==
    [][\A p \in Procs :
          (/\ pc[p] \in {"goc_found", "vt_found", "vut_getTokenUser"}
           /\ pc'[p] = "done"
           /\ res'[p].t = "value" \/ (res'[p].t = "result" /\ res'[p].ok)
           /\ tok[p] \in tokens /\ Live(tok[p])
           /\ \E t \in tokens :
                 /\ t.id # tok[p].id /\ Live(t)
                 /\ t.identifier = tok[p].identifier /\ t.kind = tok[p].kind)
              => /\ tokens' = tokens
                 /\ \/ res'[p] = Value(tok[p])
                    \/ res'[p] = ok(tok[p])
                    \/ res'[p] = ok([user |-> userCheck'[p].data.user,
                                     token |-> tok[p]])]_vars

\* validateToken has returned one of two unexpired tokens stored for one
\* (identifier, kind), and both are stored
C17_Witness ==
    \E p \in Procs :
        /\ Returned(p, "validateToken")
        /\ res[p] = ok(tok[p])
        /\ tok[p] \in tokens
        /\ \E t \in tokens :
              /\ t.id # tok[p].id /\ Live(t)
              /\ t.identifier = tok[p].identifier /\ t.kind = tok[p].kind

\* C18: in the branch of getOrCreate that replaces an expired token, once
\* the create has failed the call has thrown: it returns no token and creates
\* none afterwards.  The deleteOne issued with the create still runs, so the
\* failed call can leave no token at all for its (identifier, kind).
C18_CreateFailureThrows ==
    \A p \in Procs :
        (op[p] = "getOrCreate" /\ crSt[p] = "failed")
            => /\ res[p] = Threw
               /\ newTok[p] = NoToken
               /\ expd[p] /\ tok[p] # NoToken

\* a getOrCreate whose create failed and whose deleteOne succeeded has
\* thrown, and no token is stored for its (identifier, kind)
C18_Witness ==
    \E p \in Procs :
        /\ pc[p] = "done" /\ op[p] = "getOrCreate"
        /\ crSt[p] = "failed" /\ dlSt[p] = "ok"
        /\ res[p] = Threw
        /\ ~IsStored(tok[p])
        /\ Stored(input[p].identifier, input[p].kind) = {}

\* the user store resolves the user of token t
Resolves(t) ==
    \E u \in users :
        Prop(u, ParseIdentifier(t.identifier).field)
           = Str(ParseIdentifier(t.identifier).value)

\* C19: over calls that do not overlap, a validateToken or validateUserToken
\* that succeeds does not consume the token.  When it returns, the token it
\* returns is stored and is the one its pin and kind select; no step
\* of such a call changes the token store; and a call made in such a state
\* finds that token, returns it while it is unexpired and, for
\* validateUserToken, returns it with its user while the user resolves.
C19_SuccessKeepsToken ==
    /\ [](\A p \in Procs :
            (/\ pc[p] = "done" /\ op[p] \in {"validateToken", "validateUserToken"}
             /\ res[p].t = "result" /\ res[p].ok)
                => /\ tok[p] \in tokens
                   /\ ByPin(input[p].pin, input[p].kind) = {tok[p]}
                   /\ op[p] = "validateToken"
                         => res[p].data = tok[p] /\ Live(tok[p])
                   /\ op[p] = "validateUserToken"
                         => res[p].data.token = tok[p] /\ Resolves(tok[p]))
    /\ [][\A p \in Procs :
             /\ (/\ pc[p] = "idle" /\ pc'[p] = "vt_found"
                 /\ ByPin(input'[p].pin, input'[p].kind) # {})
                    => /\ tok'[p] \in ByPin(input'[p].pin, input'[p].kind)
                       /\ tokens' = tokens
             /\ (/\ pc[p] = "vt_found" /\ pc'[p] # pc[p]
                 /\ tok[p] # NoToken /\ Live(tok[p]))
                    => /\ tokens' = tokens
                       /\ IF op[p] = "validateToken"
                          THEN pc'[p] = "done" /\ res'[p] = ok(tok[p])
                          ELSE pc'[p] = "vut_getTokenUser"
             /\ (/\ pc[p] = "vut_getTokenUser" /\ pc'[p] # pc[p]
                 /\ Resolves(tok[p]))
                    => /\ tokens' = tokens
                       /\ pc'[p] = "done"
                       /\ res'[p].ok /\ res'[p].data.token = tok[p]]_vars

\* validateUserToken has returned a token that expires, with its user, and
\* the token is still stored
C19_Witness ==
    \E p \in Procs :
        /\ Returned(p, "validateUserToken")
        /\ res[p].ok
        /\ res[p].data.token \in tokens
        /\ res[p].data.token.expiresInMs # <<>>

\* C20: in every interleaving, the token a validateToken or
\* validateUserToken call holds, returns or deletes has the pin and the kind
\* the call was given; a stored token of another kind or with another pin is
\* never returned by the call, and every step of the call leaves it stored
\* as it is.
C20_OnlyMatchingPinAndKind ==
    /\ [](\A p \in Procs :
            op[p] \in {"validateToken", "validateUserToken"}
               => /\ tok[p] # NoToken
                        => /\ tok[p].pin = input[p].pin
                           /\ tok[p].kind = input[p].kind
                  /\ (pc[p] = "done" /\ res[p].t = "result" /\ res[p].ok)
                        => LET returned == IF op[p] = "validateToken"
                                           THEN res[p].data
                                           ELSE res[p].data.token
                           IN  /\ returned.pin = input[p].pin
                               /\ returned.kind = input[p].kind)
    /\ [][\A p \in Procs :
             (/\ op'[p] \in {"validateToken", "validateUserToken"}
              /\ pc'[p] # pc[p])
                 => \A t \in tokens :
                       (t.pin # input'[p].pin \/ t.kind # input'[p].kind)
                          => t \in tokens']_vars

\* validateUserToken has deleted the expired token of its pin and kind, and
\* a token of that kind with another pin is still stored
C20_Witness ==
    \E p \in Procs :
        /\ Returned(p, "validateUserToken")
        /\ res[p] = err([code |-> "token_expired"])
        /\ tok[p] # NoToken /\ ~IsStored(tok[p])
        /\ \E t \in tokens : t.kind = input[p].kind /\ t.pin # input[p].pin
====
